---- MODULE Spec2Model ----
(***************************************************************************)
(* The status-synchronisation engine of the TaxiBuffer queue page:         *)
(* QueueManager of queue_status.js (aligned polling scheduler, status      *)
(* fetcher, notification state machine, response protocol).                *)
(*                                                                         *)
(* Time is the wall clock in milliseconds within the current minute        *)
(* (getSeconds() and getMilliseconds() are read from it).  The two         *)
(* scheduler timers are kept with the time left until they are due, and    *)
(* the clock moves when one of them fires.  The other one-shot timeouts    *)
(* (initial update, popup, post-response refresh, alert dismissal) do not  *)
(* read the clock and fire in any order.                                   *)
(* The 'push' listener of the service worker (both variants of the file    *)
(* have the same control flow) is modelled with the promises it starts.    *)
(* checkAndRepairSubscription (push subscription repair) touches no engine *)
(* state and is left out.  The page is assumed to hold #alert-container.   *)
(***************************************************************************)
EXTENDS Integers, FiniteSets, Sequences, Bags, TLC

VARIABLES
    currentNotificationId,  \* this.state.currentNotificationId
    shownNotifications,     \* keys of this.state.shownNotifications
    pollTimer,              \* this.state.pollTimer (handle or NULL)
    alignmentTimeout,       \* this.state.alignmentTimeout (handle or NULL)
    isConnected,            \* this.state.isConnected
    retryCount,             \* this.state.retryCount
    initialUpdateDone,      \* this.state.initialUpdateDone
    now,                    \* wall clock, ms within the minute
    timers,                 \* live scheduler timers of the browser
    timeouts,               \* bag of the other pending one-shot timeouts
    statusFetches,          \* bag of in-flight status GETs (by source tag)
    respondPosts,           \* bag of in-flight respond POST bodies
    alertContainer,         \* children of #alert-container
    popupsScheduled,        \* history: per id, popups scheduled in the session
    reReported,             \* history: a snapshot reported an id already shown
    failsSinceOk,           \* history: failing fetches since the last success
    connAlerts,             \* history: connectivity alerts since the last success
    boundaryTicks,          \* history: aligned ticks since the last boundary
    owed,                   \* history: a boundary was crossed since page load
    skipped,                \* history: the last clock step closed a boundary
                            \*   that had not got exactly one tick
    offWindow,              \* history: the last timer callback issued a tick
                            \*   outside a tolerance window
    lastTick,               \* history: the timer that issued the last aligned tick
    pushLog,                \* service worker: push events handled, with their outcome
    pendingDisplays,        \* service worker: showNotification promises not settled
    pendingMatches,         \* service worker: clients.matchAll promises not settled
    displayed,              \* service worker: system notifications displayed
    unhandledRejection,     \* service worker: a rejection reached event.waitUntil
    inbox,                  \* per window, bag of messages posted and not yet delivered
    destroyed               \* destroy() has run (beforeunload)

vars == <<currentNotificationId, shownNotifications, pollTimer, alignmentTimeout,
          isConnected, retryCount, initialUpdateDone, now, timers, timeouts,
          statusFetches, respondPosts, alertContainer, popupsScheduled, reReported,
          failsSinceOk, connAlerts, boundaryTicks, owed, skipped,
          offWindow, lastTick, pushLog, pendingDisplays, pendingMatches,
          displayed, unhandledRejection, inbox, destroyed>>

engineState == <<currentNotificationId, shownNotifications, pollTimer,
                 alignmentTimeout, isConnected, retryCount, initialUpdateDone>>

schedulerVars == <<pollTimer, alignmentTimeout, timers, now>>

tickHistory == <<boundaryTicks, owed, skipped, offWindow, lastTick>>

notifyHistory == <<popupsScheduled, reReported>>

fetchHistory == <<failsSinceOk, connAlerts>>

workerVars == <<pushLog, pendingDisplays, pendingMatches, displayed, unhandledRejection>>

bridgeVars == <<workerVars, inbox>>

pageVars == <<engineState, now, timers, timeouts, statusFetches, respondPosts,
              alertContainer, notifyHistory, fetchHistory, tickHistory, destroyed>>

----------------------------------------------------------------------------
(* Bounds of the model *)

MaxNotificationId == 2
MaxOutstanding == 2
MaxRetryCount == 4
MaxPushes == 2
MaxWindows == 2

(* Program constants *)

updateInterval == 30000
DriftMargin == 100
BoundaryTolerance == 100
RetryAlertThreshold == 3
InitialUpdateDelay == 100
PopupDelay == 500
RefreshDelay == 1000

NULL == 0

Ids == 1..MaxNotificationId

\* open pages of the site; ThisPage is the one whose engine is modelled
Windows == 1..MaxWindows

ThisPage == 1

\* wall-clock readings at page load (ms within the minute)
StartTimes == {0, 29950, 47200}

StartTimesBusy == {47200}

\* how late a timer callback may run (ms): within the tolerance, and beyond it
LateTimely == {0, 40, BoundaryTolerance - 1}

LateAny == LateTimely \cup {250}

\* on time, or late by one and a half tolerance windows: two firings make the
\* repeating timer hit the window, miss it early and miss it late
LateLive == {0, BoundaryTolerance + (BoundaryTolerance \div 2)}

MinuteMs == 60 * 1000

Max0(x) == IF x > 0 THEN x ELSE 0

----------------------------------------------------------------------------
(* Wall clock: Date.getSeconds / Date.getMilliseconds *)

getSeconds(t) == (t \div 1000) % 60

getMilliseconds(t) == t % 1000

\* faulty variant: the sub-second offset is not subtracted
calculateNextBoundaryDelay_NoMs(t) ==
    LET seconds == getSeconds(t)
    IN  (IF seconds < 30 THEN 30 - seconds ELSE 60 - seconds) * 1000

calculateNextBoundaryDelay(t) ==
    LET seconds == getSeconds(t)
        ms == getMilliseconds(t)
        secondsToNext == IF seconds < 30 THEN 30 - seconds ELSE 60 - seconds
    IN  (secondsToNext * 1000) - ms

\* faulty variant: the sub-second offset is not compared
isAtBoundary_NoMs(t) == getSeconds(t) = 0 \/ getSeconds(t) = 30

isAtBoundary(t) ==
    (getSeconds(t) = 0 \/ getSeconds(t) = 30) /\ getMilliseconds(t) < BoundaryTolerance

----------------------------------------------------------------------------
(* Browser timers.  Browsers hand out increasing handles, so a new handle   *)
(* differs from every live one and from every one the engine state still   *)
(* records (`stored`); the model takes the least such handle.              *)

TimerIds(ts) == {t.id : t \in ts}

FreshHandle(ts, stored) ==
    LET used == TimerIds(ts) \cup stored
    IN  CHOOSE h \in 1..(Cardinality(used) + 1) :
            h \notin used /\ \A g \in 1..(Cardinality(used) + 1) : g \notin used => h <= g

\* clearTimeout / clearInterval
clearTimer(ts, h) == {t \in ts : t.id # h}

Age(ts, d) == {[t EXCEPT !.remaining = t.remaining - d] : t \in ts}

IsNextDue(t) == \A u \in timers : t.remaining <= u.remaining

scheduleFirstUpdate(ts, t, stored) ==
    LET h == FreshHandle(ts, stored)
        delay == calculateNextBoundaryDelay(t)
    IN  [timers |-> ts \cup {[id |-> h, kind |-> "timeout", remaining |-> delay]},
         alignmentTimeout |-> h]

\* faulty variant: the repeating timer is armed at the full interval
setupSelfCorrectingInterval_NoMargin(ts, poll) ==
    LET ts1 == IF poll # NULL THEN clearTimer(ts, poll) ELSE ts
        h == FreshHandle(ts1, {})
    IN  [timers |-> ts1 \cup {[id |-> h, kind |-> "interval",
                               remaining |-> updateInterval]},
         pollTimer |-> h]

\* faulty variant: the repeating timer is not armed
setupSelfCorrectingInterval_NoArm(ts, poll) ==
    [timers |-> IF poll # NULL THEN clearTimer(ts, poll) ELSE ts, pollTimer |-> NULL]

setupSelfCorrectingInterval(ts, poll) ==
    LET ts1 == IF poll # NULL THEN clearTimer(ts, poll) ELSE ts
        h == FreshHandle(ts1, {})
    IN  [timers |-> ts1 \cup {[id |-> h, kind |-> "interval",
                               remaining |-> updateInterval - DriftMargin]},
         pollTimer |-> h]

\* faulty variant: the prior timers are not cancelled
startAlignedPolling_NoCancel(ts, align, poll, t) ==
    scheduleFirstUpdate(ts, t, {align, poll})

startAlignedPolling(ts, align, poll, t) ==
    LET ts1 == IF align # NULL THEN clearTimer(ts, align) ELSE ts
        ts2 == IF poll # NULL THEN clearTimer(ts1, poll) ELSE ts1
    IN  scheduleFirstUpdate(ts2, t, {})

----------------------------------------------------------------------------
(* Tick bookkeeping against the :00/:30 boundaries *)

BoundariesCrossed(t, d) == ((t % updateInterval) + d) \div updateInterval

InWindow(t) == (t % updateInterval) < BoundaryTolerance

\* The clock moves from now by d; then timer `tick` ("" for none) issues a tick.
Advance(d, tick) ==
    LET k == BoundariesCrossed(now, d)
        t1 == (now + d) % MinuteMs
        base == IF k > 0 THEN 0 ELSE boundaryTicks
        closedBad == \/ k > 1
                     \/ k = 1 /\ owed /\ boundaryTicks # 1
    IN  /\ now' = t1
        /\ owed' = (owed \/ k > 0)
        /\ skipped' = closedBad
        /\ boundaryTicks' = IF tick # "" /\ InWindow(t1) /\ base < 2
                            THEN base + 1 ELSE base
        /\ offWindow' = (tick # "" /\ ~InWindow(t1))
        /\ lastTick' = IF tick # "" THEN tick ELSE lastTick

----------------------------------------------------------------------------
(* Pending work outside the scheduler *)

InitialTimeout == [task |-> "initial", delay |-> InitialUpdateDelay, id |-> NULL]

RefreshTimeout == [task |-> "refresh", delay |-> RefreshDelay, id |-> NULL]

\* id: the notification whose snapshot scheduled the popup (not passed by the code)
PopupTimeout(n) == [task |-> "popup", delay |-> PopupDelay, id |-> n]

\* requests in flight and timeouts that will issue one
Outstanding ==
    BagCardinality(statusFetches) + BagCardinality(respondPosts)
        + CopiesIn(RefreshTimeout, timeouts) + CopiesIn(InitialTimeout, timeouts)

CanIssue == Outstanding < MaxOutstanding

\* faulty variant: no request is sent
updateStatus_Nothing(source) == statusFetches

\* updateStatus up to its first await: the GET is sent
updateStatus(source) == statusFetches (+) SetToBag({source})

----------------------------------------------------------------------------
(* What the status endpoint may answer *)

NoRecord == [id |-> NULL, is_expired |-> FALSE]

QuietSnapshot == [has_notification |-> FALSE, notification |-> NoRecord]

SnapshotsOf(ids) ==
    {QuietSnapshot,
     [has_notification |-> TRUE, notification |-> NoRecord],
     [has_notification |-> FALSE, notification |-> [id |-> 1, is_expired |-> FALSE]]}
    \cup [has_notification : {TRUE}, notification : [id : ids, is_expired : BOOLEAN]]

Snapshots == SnapshotsOf(Ids)

\* kind: "network" (fetch rejects), "http" (response.ok false), "unparsable"
\* (response.json() throws), "api" (success false), "ok" (success true)
Response(kind, data) == [kind |-> kind, data |-> data]

FailedResponses == {Response(k, QuietSnapshot) : k \in {"network", "http", "unparsable", "api"}}

OkResponses(S) == {Response("ok", d) : d \in S}

QuietResponses == OkResponses({QuietSnapshot})

\* faulty variant: the success flag of the payload is not looked at
StatusSucceeds_NoSuccessCheck(r) == r.kind \in {"ok", "api"}

\* faulty variant: response.ok is not looked at
StatusSucceeds_NoOkCheck(r) == r.kind \in {"ok", "http"}

\* the try block of updateStatus reaches the success path
StatusSucceeds(r) == r.kind = "ok"

\* faulty variant: is_expired is not looked at
hasActiveNotification_IgnoreExpiry(data) ==
    data.has_notification /\ data.notification # NoRecord

hasActiveNotification(data) ==
    data.has_notification /\ data.notification # NoRecord /\ ~data.notification.is_expired

\* faulty variant: the active id is not cleared
hideNotification_Keep(cur) == cur

hideNotification(cur) == NULL

\* handleNotification: the new currentNotificationId
handleNotificationId(data, cur) ==
    IF hasActiveNotification(data) THEN data.notification.id ELSE hideNotification(cur)

\* faulty variant: no look-up in shownNotifications
handleNotificationSurfaces_NoDedup(data, shown) == hasActiveNotification(data)

\* handleNotification: whether the popup is scheduled
handleNotificationSurfaces(data, shown) ==
    hasActiveNotification(data) /\ data.notification.id \notin shown

\* handleNotification: the new keys of shownNotifications
handleNotificationShown(data, shown) ==
    IF handleNotificationSurfaces(data, shown)
    THEN shown \cup {data.notification.id} ELSE shown

\* innerHTML = '' and one new div
showAlert(container, type, message) == <<[type |-> type, message |-> message]>>

\* faulty variant: the alert waits for one more failure
ConnectionAlertDue_OffByOne(count) == count > RetryAlertThreshold

\* the catch block of updateStatus shows the alert
ConnectionAlertDue(count) == count >= RetryAlertThreshold

----------------------------------------------------------------------------
InitAt(starts) ==
    /\ currentNotificationId = NULL
    /\ shownNotifications = {}
    /\ pollTimer = NULL
    /\ isConnected = FALSE
    /\ retryCount = 0
    /\ initialUpdateDone = FALSE
    /\ now \in starts
    /\ LET s == startAlignedPolling({}, NULL, NULL, now)
       IN  timers = s.timers /\ alignmentTimeout = s.alignmentTimeout
    /\ timeouts = SetToBag({InitialTimeout})
    /\ statusFetches = EmptyBag
    /\ respondPosts = EmptyBag
    /\ alertContainer = <<>>
    /\ popupsScheduled = [n \in Ids |-> 0]
    /\ reReported = FALSE
    /\ failsSinceOk = 0
    /\ connAlerts = 0
    /\ boundaryTicks = 0
    /\ owed = FALSE
    /\ skipped = FALSE
    /\ offWindow = FALSE
    /\ lastTick = ""
    /\ pushLog = <<>>
    /\ pendingDisplays = 0
    /\ pendingMatches = 0
    /\ displayed = 0
    /\ unhandledRejection = FALSE
    /\ inbox = [w \in Windows |-> EmptyBag]
    /\ destroyed = FALSE

----------------------------------------------------------------------------
(* Scheduler *)

\* startAlignedPolling called again while timers may be live
Restart ==
    /\ LET s == startAlignedPolling(timers, alignmentTimeout, pollTimer, now)
       IN  /\ timers' = s.timers
           /\ alignmentTimeout' = s.alignmentTimeout
    /\ pollTimer' = NULL
    /\ UNCHANGED <<currentNotificationId, shownNotifications, isConnected, retryCount,
                   initialUpdateDone, now, timeouts, statusFetches, respondPosts,
                   alertContainer, notifyHistory, fetchHistory, tickHistory,
                   bridgeVars, destroyed>>

\* the callback of the one-shot timer armed by scheduleFirstUpdate
AlignmentFires(late) ==
    \E t \in timers :
        /\ t.kind = "timeout"
        /\ IsNextDue(t)
        /\ CanIssue
        /\ LET d == Max0(t.remaining) + late
               s == setupSelfCorrectingInterval(Age(timers \ {t}, d), pollTimer)
           IN  /\ Advance(d, "alignment")
               /\ statusFetches' = updateStatus("aligned")
               /\ timers' = s.timers
               /\ pollTimer' = s.pollTimer
               /\ alignmentTimeout' = NULL
        /\ UNCHANGED <<currentNotificationId, shownNotifications, isConnected,
                       retryCount, initialUpdateDone, timeouts, respondPosts,
                       alertContainer, notifyHistory, fetchHistory,
                   bridgeVars, destroyed>>

\* the callback of the repeating timer armed by setupSelfCorrectingInterval;
\* the browser re-arms it from the due time (nominal) or from the firing time
IntervalFires(late) ==
    \E t \in timers, nominal \in BOOLEAN :
        /\ t.kind = "interval"
        /\ IsNextDue(t)
        /\ LET d == Max0(t.remaining) + late
               t1 == (now + d) % MinuteMs
               again == [t EXCEPT !.remaining = (updateInterval - DriftMargin)
                                                 - (IF nominal THEN late ELSE 0)]
               ts1 == Age(timers \ {t}, d) \cup {again}
           IN  IF isAtBoundary(t1)
               THEN /\ CanIssue
                    /\ Advance(d, "interval")
                    /\ statusFetches' = updateStatus("aligned")
                    /\ timers' = ts1
                    /\ UNCHANGED <<pollTimer, alignmentTimeout>>
               ELSE LET s == scheduleFirstUpdate(clearTimer(ts1, pollTimer), t1,
                                                 {pollTimer})
                    IN  /\ Advance(d, "")
                        /\ timers' = s.timers
                        /\ alignmentTimeout' = s.alignmentTimeout
                        /\ UNCHANGED <<pollTimer, statusFetches>>
        /\ UNCHANGED <<currentNotificationId, shownNotifications, isConnected,
                       retryCount, initialUpdateDone, timeouts, respondPosts,
                       alertContainer, notifyHistory, fetchHistory,
                   bridgeVars, destroyed>>

\* faulty variant: only the alignment timeout is cancelled
destroyTimers_AlignmentOnly(ts, align, poll) ==
    IF align # NULL THEN clearTimer(ts, align) ELSE ts

\* destroy: the timers left
destroyTimers(ts, align, poll) ==
    LET ts1 == IF align # NULL THEN clearTimer(ts, align) ELSE ts
    IN  IF poll # NULL THEN clearTimer(ts1, poll) ELSE ts1

\* destroy(), called by the beforeunload listener
Destroy ==
    /\ ~destroyed
    /\ destroyed' = TRUE
    /\ timers' = destroyTimers(timers, alignmentTimeout, pollTimer)
    /\ UNCHANGED <<engineState, now, timeouts, statusFetches, respondPosts,
                   alertContainer, notifyHistory, fetchHistory, tickHistory,
                   bridgeVars>>

----------------------------------------------------------------------------
(* Timeouts that do not belong to the scheduler *)

\* init(true): setTimeout(() => { updateStatus('initial'); ... }, 100)
InitialUpdate ==
    /\ BagIn(InitialTimeout, timeouts)
    /\ timeouts' = timeouts (-) SetToBag({InitialTimeout})
    /\ statusFetches' = updateStatus("initial")
    /\ initialUpdateDone' = TRUE
    /\ UNCHANGED <<currentNotificationId, shownNotifications, isConnected, retryCount,
                   schedulerVars, respondPosts, alertContainer, notifyHistory,
                   fetchHistory, tickHistory,
                   bridgeVars, destroyed>>

\* setTimeout(() => this.updateStatus(), 1000) of respondToNotification
RefreshFires ==
    /\ BagIn(RefreshTimeout, timeouts)
    /\ timeouts' = timeouts (-) SetToBag({RefreshTimeout})
    /\ statusFetches' = updateStatus("unknown")
    /\ UNCHANGED <<engineState, now, timers, respondPosts, alertContainer,
                   notifyHistory, fetchHistory, tickHistory,
                   bridgeVars, destroyed>>

\* setTimeout(() => this.showPushReceivedFeedback(...), 500) of handleNotification
PopupFires ==
    \E n \in Ids :
        /\ BagIn(PopupTimeout(n), timeouts)
        /\ timeouts' = timeouts (-) SetToBag({PopupTimeout(n)})
        /\ UNCHANGED <<engineState, now, timers, statusFetches, respondPosts,
                       alertContainer, notifyHistory, fetchHistory, tickHistory,
                   bridgeVars, destroyed>>

\* the 5000 ms timeout of showAlert removes its div if it is still attached
AlertDismiss ==
    \E i \in 1..Len(alertContainer) :
        /\ alertContainer' = SubSeq(alertContainer, 1, i - 1)
                                 \o SubSeq(alertContainer, i + 1, Len(alertContainer))
        /\ UNCHANGED <<engineState, now, timers, timeouts, statusFetches, respondPosts,
                       notifyHistory, fetchHistory, tickHistory,
                   bridgeVars, destroyed>>

----------------------------------------------------------------------------
(* Service worker message listener *)

MessageTypes == {"REFRESH_STATUS", "OTHER"}

\* faulty variant: the type of the message is not looked at
isRefreshMessage_AnyType(type) == type \in MessageTypes

\* event.data && event.data.type === 'REFRESH_STATUS'
isRefreshMessage(type) == type = "REFRESH_STATUS"

\* the 'message' listener of the page
ServiceWorkerMessage(type) ==
    /\ IF isRefreshMessage(type)
       THEN /\ CanIssue
            /\ statusFetches' = updateStatus("push_notification")
       ELSE UNCHANGED statusFetches
    /\ UNCHANGED <<engineState, now, timers, timeouts, respondPosts,
                   alertContainer, notifyHistory, fetchHistory, tickHistory,
                   destroyed>>

----------------------------------------------------------------------------
(* Completion of a status fetch: updateStatus after its awaits *)

\* the snapshot carries an unexpired notification record (and which)
Carried(data) ==
    IF data.has_notification /\ data.notification.id # NULL /\ ~data.notification.is_expired
    THEN data.notification.id ELSE NULL

FetchSettles(r) ==
    \E src \in BagToSet(statusFetches) :
        /\ statusFetches' = statusFetches (-) SetToBag({src})
        /\ IF StatusSucceeds(r)
           THEN /\ retryCount' = 0
                /\ isConnected' = TRUE
                /\ currentNotificationId' =
                       handleNotificationId(r.data, currentNotificationId)
                /\ shownNotifications' =
                       handleNotificationShown(r.data, shownNotifications)
                /\ IF handleNotificationSurfaces(r.data, shownNotifications)
                   THEN /\ timeouts' =
                              timeouts (+) SetToBag({PopupTimeout(r.data.notification.id)})
                        /\ popupsScheduled' =
                              [popupsScheduled EXCEPT ![r.data.notification.id] = @ + 1]
                   ELSE UNCHANGED <<timeouts, popupsScheduled>>
                /\ connAlerts' = 0
                /\ UNCHANGED alertContainer
           ELSE /\ retryCount < MaxRetryCount
                /\ retryCount' = retryCount + 1
                /\ isConnected' = FALSE
                /\ IF ConnectionAlertDue(retryCount + 1)
                   THEN /\ alertContainer' =
                              showAlert(alertContainer, "error", "connection")
                        /\ connAlerts' = connAlerts + 1
                   ELSE UNCHANGED <<alertContainer, connAlerts>>
                /\ UNCHANGED <<currentNotificationId, shownNotifications, timeouts,
                               popupsScheduled>>
        /\ failsSinceOk' = IF r.kind = "ok" THEN 0 ELSE failsSinceOk + 1
        /\ reReported' =
               (reReported \/ (r.kind = "ok" /\ Carried(r.data) \in shownNotifications))
        /\ UNCHANGED <<schedulerVars, initialUpdateDone, respondPosts, tickHistory,
                   bridgeVars, destroyed>>

----------------------------------------------------------------------------
(* Response protocol *)

Verdicts == {"accepted", "declined"}

\* the JSON body of the POST
PostBody(id, verdict) == [notification_id |-> id, response |-> verdict]

\* faulty variant: the guard is missing
NoActiveNotification_Never(cur) == FALSE

\* respondToNotification sends nothing and rejects
NoActiveNotification(cur) == cur = NULL

\* respondToNotification up to its first await
Respond(verdict) ==
    /\ IF NoActiveNotification(currentNotificationId)
       THEN /\ alertContainer' = showAlert(alertContainer, "error", "no_active")
            /\ UNCHANGED respondPosts
       ELSE /\ CanIssue
            /\ respondPosts' =
                   respondPosts (+) SetToBag({PostBody(currentNotificationId, verdict)})
            /\ UNCHANGED alertContainer
    /\ UNCHANGED <<engineState, now, timers, timeouts, statusFetches,
                   notifyHistory, fetchHistory, tickHistory,
                   bridgeVars, destroyed>>

\* kind: "network" (fetch rejects), "unparsable" (res.json() throws),
\* "api" (success false), "ok" (success true)
ReplyKinds == {"network", "unparsable", "api", "ok"}

\* faulty variant: the success flag of the reply is not looked at
RespondSucceeds_NoSuccessCheck(kind) == kind \in {"ok", "api"}

RespondSucceeds(kind) == kind = "ok"

\* respondToNotification after its awaits
RespondSettles(p, kind) ==
    /\ BagIn(p, respondPosts)
    /\ respondPosts' = respondPosts (-) SetToBag({p})
    /\ IF RespondSucceeds(kind)
       THEN /\ alertContainer' = showAlert(alertContainer, "success", "respond_ok")
            /\ currentNotificationId' = hideNotification(currentNotificationId)
            /\ timeouts' = timeouts (+) SetToBag({RefreshTimeout})
       ELSE /\ alertContainer' = showAlert(alertContainer, "error", "respond_failed")
            /\ UNCHANGED <<currentNotificationId, timeouts>>
    /\ UNCHANGED <<shownNotifications, isConnected, retryCount, initialUpdateDone,
                   schedulerVars, statusFetches, notifyHistory, fetchHistory,
                   tickHistory,
                   bridgeVars, destroyed>>

----------------------------------------------------------------------------
(* Push bridge: the 'push' listener of the service worker *)

\* what a push event carries: no data, bytes that are not JSON, the JSON
\* value null, a JSON object
PushPayloads == {"none", "malformed", "null", "object"}

\* faulty variant: the test for a missing payload is left out
hasData_Always(p) == TRUE

\* if (!event.data) ... return
hasData(p) == p # "none"

\* event.data.json() throws, or reading a property of null does
processingThrows(p) == p \in {"none", "malformed", "null"}

\* faulty variant: the body of the listener is not guarded
tryCatches_Nothing == FALSE

\* the try block spans the processing of the payload
tryCatches == TRUE

\* how the listener leaves: after console.warn, inside catch, with the
\* exception, or having called showNotification
Outcome(p) ==
    IF ~hasData(p) THEN "warned"
    ELSE IF processingThrows(p) THEN (IF tryCatches THEN "caught" ELSE "escaped")
    ELSE "displaying"

Push(p) ==
    /\ Len(pushLog) < MaxPushes
    /\ pushLog' = Append(pushLog, [payload |-> p, outcome |-> Outcome(p)])
    /\ pendingDisplays' =
           IF Outcome(p) = "displaying" THEN pendingDisplays + 1 ELSE pendingDisplays
    /\ UNCHANGED <<pendingMatches, displayed, unhandledRejection, inbox, pageVars>>

\* showNotification(...).then(...): the continuation runs on fulfilment only
thenRuns(resolved) == resolved

\* the promise of showNotification settles
DisplaySettles(resolved) ==
    /\ pendingDisplays > 0
    /\ pendingDisplays' = pendingDisplays - 1
    /\ displayed' = IF resolved THEN displayed + 1 ELSE displayed
    /\ pendingMatches' = IF thenRuns(resolved) THEN pendingMatches + 1 ELSE pendingMatches
    /\ unhandledRejection' = (unhandledRejection \/ ~resolved)
    /\ UNCHANGED <<pushLog, inbox, pageVars>>

\* for (let client of clients) client.postMessage({type: ...})
postMessage(boxes, clients, type) ==
    [w \in Windows |-> IF w \in clients THEN boxes[w] (+) SetToBag({type})
                                         ELSE boxes[w]]

\* the promise of clients.matchAll settles with the windows open at that time
MatchAllSettles(clients) ==
    /\ pendingMatches > 0
    /\ pendingMatches' = pendingMatches - 1
    /\ inbox' = postMessage(inbox, clients, "REFRESH_STATUS")
    /\ UNCHANGED <<pushLog, pendingDisplays, displayed, unhandledRejection, pageVars>>

\* a message of another type is posted to this page
ForeignPost ==
    /\ ~BagIn("OTHER", inbox[ThisPage])
    /\ inbox' = postMessage(inbox, {ThisPage}, "OTHER")
    /\ UNCHANGED <<workerVars, pageVars>>

\* a posted message reaches its window; the listener of this page runs
MessageDelivered(w, type) ==
    /\ BagIn(type, inbox[w])
    /\ inbox' = [inbox EXCEPT ![w] = @ (-) SetToBag({type})]
    /\ IF w = ThisPage THEN ServiceWorkerMessage(type) ELSE UNCHANGED pageVars
    /\ UNCHANGED workerVars

----------------------------------------------------------------------------
(* The engine in the first half minute of a session, under an exact clock  *)
(* (the alignment callback runs when due), the status endpoint answering   *)
(* with one of R.                                                          *)

Engine(R) ==
    \/ AlignmentFires(0)
    \/ InitialUpdate
    \/ RefreshFires
    \/ PopupFires
    \/ AlertDismiss
    \/ ServiceWorkerMessage("REFRESH_STATUS") /\ UNCHANGED bridgeVars
    \/ \E r \in R : FetchSettles(r)
    \/ \E verdict \in Verdicts : Respond(verdict)
    \/ \E p \in BagToSet(respondPosts), kind \in ReplyKinds : RespondSettles(p, kind)

Init == InitAt(StartTimesBusy)

(* A status endpoint that always answers, with any snapshot. *)

Next == Engine(OkResponses(Snapshots))

Spec == Init /\ [][Next]_vars

(* A status endpoint that may fail, and knows one notification. *)

NextFail == Engine(FailedResponses \cup OkResponses(SnapshotsOf({1})))

SpecFail == Init /\ [][NextFail]_vars

(* The scheduler under a quiet server (no notification, no failure), with  *)
(* restarts; timer callbacks run late by any amount ...                    *)

NextSched ==
    \/ Restart
    \/ \E late \in LateAny : AlignmentFires(late)
    \/ \E late \in LateAny : IntervalFires(late)
    \/ InitialUpdate
    \/ \E r \in QuietResponses : FetchSettles(r)

InitSched == InitAt(StartTimes)

SpecSched == InitSched /\ [][NextSched]_vars

(* ... or by less than the tolerance window. *)

NextTimely ==
    \/ Restart
    \/ \E late \in LateTimely : AlignmentFires(late)
    \/ \E late \in LateTimely : IntervalFires(late)
    \/ InitialUpdate
    \/ \E r \in QuietResponses : FetchSettles(r)

SpecTimely == InitSched /\ [][NextTimely]_vars

(* The scheduler up to and after page unload. *)

NextDestroy ==
    \/ Restart /\ ~destroyed
    \/ \E late \in LateAny : AlignmentFires(late)
    \/ \E late \in LateAny : IntervalFires(late)
    \/ InitialUpdate
    \/ \E r \in QuietResponses : FetchSettles(r)
    \/ Destroy

SpecDestroy == InitSched /\ [][NextDestroy]_vars

(* The whole engine with a failing server and late timers, the page not   *)
(* unloaded.  An armed timer fires in the end: the browser runs its        *)
(* callback whatever requests are in flight, so the bound on requests in   *)
(* flight only postpones it (strong fairness).  A request is answered or   *)
(* fails in the end (weak fairness).                                       *)

NextLive ==
    \/ \E late \in LateLive : AlignmentFires(late)
    \/ \E late \in LateLive : IntervalFires(late)
    \/ InitialUpdate
    \/ RefreshFires
    \/ \E r \in FailedResponses \cup OkResponses(SnapshotsOf({1})) : FetchSettles(r)
    \/ Respond("accepted")
    \/ \E p \in BagToSet(respondPosts), kind \in ReplyKinds : RespondSettles(p, kind)

TimersFire ==
    /\ SF_vars(\E late \in LateLive : AlignmentFires(late))
    /\ SF_vars(\E late \in LateLive : IntervalFires(late))
    /\ WF_vars(InitialUpdate)
    /\ WF_vars(RefreshFires)

RequestsSettle ==
    /\ WF_vars(\E r \in FailedResponses \cup OkResponses(SnapshotsOf({1})) : FetchSettles(r))
    /\ WF_vars(\E p \in BagToSet(respondPosts), kind \in ReplyKinds : RespondSettles(p, kind))

SpecLive == Init /\ [][NextLive]_vars /\ TimersFire /\ RequestsSettle

(* The push bridge and the page it wakes, under a quiet server and an      *)
(* exact clock.                                                            *)

NextPush ==
    \/ \E p \in PushPayloads : Push(p)
    \/ \E resolved \in BOOLEAN : DisplaySettles(resolved)
    \/ \E clients \in SUBSET Windows : MatchAllSettles(clients)
    \/ ForeignPost
    \/ \E w \in Windows, type \in MessageTypes : MessageDelivered(w, type)
    \/ AlignmentFires(0)
    \/ IntervalFires(0)
    \/ InitialUpdate
    \/ \E r \in QuietResponses : FetchSettles(r)

SpecPush == Init /\ [][NextPush]_vars

(* The first alignment from every reading of the clock: seconds 0..59,     *)
(* milliseconds 0..999.                                                    *)

Readings == 0..(MinuteMs - 1)

NextDelay == \E late \in LateAny : AlignmentFires(late)

InitDelay == InitAt(Readings)

SpecDelay == InitDelay /\ [][NextDelay]_vars

----------------------------------------------------------------------------
(* Properties of the notification state machine and the response protocol  *)
(* (Spec)                                                                  *)

Alert(type, message) == <<[type |-> type, message |-> message]>>

SchedulerUntouched == UNCHANGED <<pollTimer, alignmentTimeout, timers, now>>

\* C1: for every notification id the popup is scheduled at most once in a
\* session, whatever fetches (initial, aligned, push-triggered,
\* post-response) report it and however often.
C1_SurfacedAtMostOnce == \A n \in Ids : popupsScheduled[n] <= 1

\* a snapshot reported an id that was already shown, and its popup count is 1
C1_Witness == reReported /\ \E n \in Ids : popupsScheduled[n] = 1 /\ currentNotificationId = n

\* C2: while a notification is active, a successful snapshot that carries
\* a different unexpired notification leaves currentNotificationId as it is.
C2_ActiveIdNotOverwritten ==
    [][\A r \in OkResponses(Snapshots) :
           (/\ FetchSettles(r)
            /\ currentNotificationId # NULL
            /\ Carried(r.data) \notin {NULL, currentNotificationId})
               => currentNotificationId' = currentNotificationId]_vars

\* C3: respondToNotification with no active notification sends no POST,
\* schedules no fetch, shows the error alert and changes nothing else.
C3_NoActiveNoNetwork ==
    [][\A v \in Verdicts :
           (Respond(v) /\ currentNotificationId = NULL)
               => /\ respondPosts' = respondPosts
                  /\ statusFetches' = statusFetches
                  /\ timeouts' = timeouts
                  /\ alertContainer' = Alert("error", "no_active")
                  /\ UNCHANGED engineState
                  /\ SchedulerUntouched]_vars

\* the rejection happened: its alert is up, nothing is in flight
C3_Witness ==
    /\ alertContainer = Alert("error", "no_active")
    /\ currentNotificationId = NULL
    /\ respondPosts = EmptyBag
    /\ statusFetches = EmptyBag

\* C4: a respond POST that succeeds clears the active notification and
\* schedules exactly one status fetch 1000 ms later; that timeout, once
\* pending, can fire in every state of the scheduler, issues one fetch, and
\* neither step touches the alignment timer or the repeating timer.
C4_SuccessClearsAndRefreshes ==
    /\ [][\A p \in BagToSet(respondPosts) :
              RespondSettles(p, "ok")
                  => /\ currentNotificationId' = NULL
                     /\ timeouts' = timeouts (+) SetToBag(
                            {[task |-> "refresh", delay |-> 1000, id |-> NULL]})
                     /\ statusFetches' = statusFetches
                     /\ SchedulerUntouched]_vars
    /\ [][RefreshFires
              => /\ statusFetches' = statusFetches (+) SetToBag({"unknown"})
                 /\ CopiesIn(RefreshTimeout, timeouts')
                        = CopiesIn(RefreshTimeout, timeouts) - 1
                 /\ SchedulerUntouched]_vars
    /\ [](BagIn(RefreshTimeout, timeouts) => ENABLED RefreshFires)

\* a response succeeded while the repeating timer was armed: the id is
\* cleared, the refresh is pending, the timer is still there
C4_Witness ==
    /\ alertContainer = Alert("success", "respond_ok")
    /\ currentNotificationId = NULL
    /\ BagIn(RefreshTimeout, timeouts)
    /\ \E t \in timers : t.kind = "interval" /\ t.id = pollTimer

\* C5 as stated: after a failed respond POST the active id is the id that
\* was sent.
C5_FailureRetainsSentId ==
    [][\A p \in BagToSet(respondPosts), kind \in ReplyKinds \ {"ok"} :
           RespondSettles(p, kind) => currentNotificationId' = p.notification_id]_vars

\* C5 amended: a failed respond POST leaves the active id as it is (only a
\* successful snapshot or a successful response ever changes it), shows the
\* error alert and schedules no fetch; a later call sends a POST for the id
\* then active.
C5_FailureLeavesActiveId ==
    /\ [][\A p \in BagToSet(respondPosts), kind \in ReplyKinds \ {"ok"} :
              RespondSettles(p, kind)
                  => /\ currentNotificationId' = currentNotificationId
                     /\ alertContainer' = Alert("error", "respond_failed")
                     /\ timeouts' = timeouts
                     /\ statusFetches' = statusFetches]_vars
    /\ [][currentNotificationId' # currentNotificationId
              => \/ \E r \in OkResponses(Snapshots) : FetchSettles(r)
                 \/ \E p \in BagToSet(respondPosts) : RespondSettles(p, "ok")]_vars
    /\ [][\A v \in Verdicts :
              (Respond(v) /\ currentNotificationId # NULL)
                  => respondPosts' = respondPosts (+) SetToBag(
                         {[notification_id |-> currentNotificationId,
                           response |-> v]})]_vars

\* a response failed, the id is still active and a new POST for it is in flight
C5_Witness ==
    /\ alertContainer = Alert("error", "respond_failed")
    /\ currentNotificationId # NULL
    /\ \E v \in Verdicts :
           BagIn([notification_id |-> currentNotificationId, response |-> v],
                 respondPosts)

----------------------------------------------------------------------------
(* Properties of the status fetcher (SpecFail)                             *)

\* C6: a failing status fetch leaves the page disconnected and shows the
\* connectivity alert exactly when it is the third or a later failure in a
\* row: none after one or two failures, one after three; the container
\* never holds more than one alert.
C6_ThirdFailureAlerts ==
    /\ [](connAlerts = Max0(failsSinceOk - 2))
    /\ [](failsSinceOk > 0 => ~isConnected)
    /\ [](Len(alertContainer) <= 1)
    /\ [][\A r \in FailedResponses :
              FetchSettles(r)
                  => /\ isConnected' = FALSE
                     /\ IF failsSinceOk + 1 >= 3
                        THEN alertContainer' = Alert("error", "connection")
                        ELSE alertContainer' = alertContainer]_vars

\* three failures in a row, and the one alert they produced
C6_Witness ==
    /\ failsSinceOk = 3
    /\ connAlerts = 1
    /\ ~isConnected
    /\ alertContainer = Alert("error", "connection")

\* C7: a status fetch that succeeds sets retryCount to 0 and the connection
\* state to connected; retryCount is never negative and counts the failing
\* fetches completed since the last success.
C7_SuccessResetsRetryCount ==
    /\ [](retryCount >= 0 /\ retryCount = failsSinceOk)
    /\ [][\A r \in OkResponses(SnapshotsOf({1})) :
              FetchSettles(r) => retryCount' = 0 /\ isConnected' = TRUE]_vars

\* a success after three failures: the alert is still up, the count is back at 0
C7_Witness ==
    /\ retryCount = 0
    /\ isConnected
    /\ alertContainer = Alert("error", "connection")

----------------------------------------------------------------------------
(* Properties of the aligned scheduler (SpecSched, SpecTimely)             *)

LiveTimeouts == {t \in timers : t.kind = "timeout"}

LiveIntervals == {t \in timers : t.kind = "interval"}

\* C8: at most one alignment timeout and at most one repeating timer are
\* live, every live timer is the one whose handle the engine holds, and a
\* restart leaves exactly one timer: a new alignment timeout.
C8_NoLeakedTimers ==
    /\ [](Cardinality(LiveTimeouts) <= 1 /\ Cardinality(LiveIntervals) <= 1)
    /\ [](\A t \in LiveTimeouts : t.id = alignmentTimeout)
    /\ [](\A t \in LiveIntervals : t.id = pollTimer)
    /\ [][Restart
              => /\ Cardinality(timers') = 1
                 /\ \A t \in timers' :
                        t.kind = "timeout" /\ t.id = alignmentTimeout']_vars

\* a restart after the repeating timer had been armed
C8_Witness == pollTimer = NULL /\ lastTick # "" /\ Cardinality(timers) = 1

\* C9: when the repeating timer fires with the clock at second 0 or 30 and
\* less than 100 ms into it, one aligned fetch is issued and the repeating
\* timer stays the only timer; otherwise no fetch is issued, no repeating
\* timer is left and exactly one alignment timeout is armed.
C9_IntervalFiring ==
    [][\A late \in LateAny :
           IntervalFires(late)
               => IF /\ (now' \div 1000) % 60 \in {0, 30}
                     /\ now' % 1000 < 100
                  THEN /\ statusFetches' = statusFetches (+) SetToBag({"aligned"})
                       /\ pollTimer' = pollTimer
                       /\ Cardinality(timers') = 1
                       /\ \A t \in timers' : t.kind = "interval" /\ t.id = pollTimer'
                  ELSE /\ statusFetches' = statusFetches
                       /\ Cardinality(timers') = 1
                       /\ \A t \in timers' :
                              t.kind = "timeout" /\ t.id = alignmentTimeout']_vars

\* the repeating timer has ticked, and a later firing found it drifted
C9_Witness ==
    /\ lastTick = "interval"
    /\ pollTimer # NULL
    /\ alignmentTimeout # NULL
    /\ LiveIntervals = {}

\* C10: with every timer less than 100 ms late, each boundary gets exactly
\* one aligned tick inside its window: no tick outside a window, none
\* doubled, and none missing once the window of a boundary has passed.
C10_OneTickPerBoundary ==
    /\ ~skipped
    /\ ~offWindow
    /\ boundaryTicks <= 1
    /\ (owed /\ now % 30000 >= 100) => boundaryTicks = 1

\* a boundary served by the repeating timer, seen after its window
C10_Witness ==
    /\ owed
    /\ boundaryTicks = 1
    /\ lastTick = "interval"
    /\ now % 30000 >= 100

----------------------------------------------------------------------------
(* Properties of the boundary arithmetic (SpecDelay)                       *)

\* C11: at every reading of the clock the alignment timeout is armed with a
\* delay d, 1 <= d <= 30000, such that now + d is the next :00 or :30
\* boundary strictly after now (:30 exactly when seconds < 30); the first
\* tick, which is not early, comes when that boundary has been reached.
C11_DelayReachesNextBoundary ==
    /\ lastTick = ""
           => /\ Cardinality(LiveTimeouts) = 1
              /\ \A t \in LiveTimeouts :
                    /\ 1 <= t.remaining /\ t.remaining <= 30000
                    /\ (now + t.remaining) % 30000 = 0
                    /\ ((now + t.remaining) % 60000 = 30000)
                           <=> ((now \div 1000) % 60 < 30)
    /\ lastTick # "" => owed /\ now % 30000 \in LateAny

\* the last millisecond of a minute: the delay is 1
C11_Witness == now = 59999 /\ lastTick = "" /\ \E t \in LiveTimeouts : t.remaining = 1

----------------------------------------------------------------------------
(* Properties of the push bridge and the message listener (SpecPush)       *)

WorkerIdle(p, outcome) ==
    /\ pushLog' = Append(pushLog, [payload |-> p, outcome |-> outcome])
    /\ UNCHANGED <<pendingDisplays, pendingMatches, displayed, unhandledRejection,
                   inbox, pageVars>>

\* C12: when showNotification rejects, the bridge still goes on to post
\* REFRESH_STATUS to the open windows, and the rejection is caught.
C12_DisplayFailureStillPosts ==
    [][DisplaySettles(FALSE)
          => pendingMatches' = pendingMatches + 1 /\ ~unhandledRejection']_vars

\* C13: a push event without data displays nothing, posts nothing, lets no
\* exception out (the listener warns and returns), and the next push event
\* is handled.
C13_NoDataNoEffect ==
    /\ [][Push("none") => WorkerIdle("none", "warned")]_vars
    /\ [](\A i \in 1..Len(pushLog) :
              pushLog[i].payload = "none" => pushLog[i].outcome = "warned")
    /\ [](Len(pushLog) < MaxPushes => \A p \in PushPayloads : ENABLED Push(p))

\* a push without data, then a push that was displayed and posted to this page
C13_Witness ==
    /\ Len(pushLog) = 2
    /\ pushLog[1] = [payload |-> "none", outcome |-> "warned"]
    /\ pushLog[2].payload = "object"
    /\ displayed = 1
    /\ BagIn("REFRESH_STATUS", inbox[ThisPage])

\* C14: a push event whose payload cannot be processed as a JSON object is
\* caught inside the listener: nothing is displayed or posted and no
\* exception leaves it; a well-formed push is then displayed, and after the
\* display one REFRESH_STATUS message is posted to each open window.
C14_MalformedPayloadContained ==
    /\ [][\A p \in {"malformed", "null"} : Push(p) => WorkerIdle(p, "caught")]_vars
    /\ [](\A i \in 1..Len(pushLog) : pushLog[i].outcome # "escaped")
    /\ [][Push("object")
             => /\ pendingDisplays' = pendingDisplays + 1
                /\ UNCHANGED <<displayed, pendingMatches, inbox>>]_vars
    /\ [][DisplaySettles(TRUE)
             => /\ displayed' = displayed + 1
                /\ pendingMatches' = pendingMatches + 1
                /\ inbox' = inbox]_vars
    /\ [][\A clients \in SUBSET Windows :
              MatchAllSettles(clients)
                  => \A w \in Windows :
                         /\ CopiesIn("REFRESH_STATUS", inbox'[w]) =
                                CopiesIn("REFRESH_STATUS", inbox[w])
                                    + (IF w \in clients THEN 1 ELSE 0)
                         /\ CopiesIn("OTHER", inbox'[w]) = CopiesIn("OTHER", inbox[w])]_vars

\* a malformed push, then a push displayed and posted to every window
C14_Witness ==
    /\ Len(pushLog) = 2
    /\ pushLog[1] = [payload |-> "malformed", outcome |-> "caught"]
    /\ pushLog[2].payload = "object"
    /\ displayed = 1
    /\ \A w \in Windows : BagIn("REFRESH_STATUS", inbox[w])

\* C15: a REFRESH_STATUS message delivered to the page issues exactly one
\* fetch tagged push_notification, in every state of the scheduler, and
\* leaves both scheduler timers alone; a message of another type issues no
\* fetch.  A push-triggered fetch and an aligned tick close together are two
\* fetches.
C15_RefreshMessageFetches ==
    /\ [][\A type \in MessageTypes :
              MessageDelivered(ThisPage, type)
                  => /\ statusFetches' =
                            IF type = "REFRESH_STATUS"
                            THEN statusFetches (+) SetToBag({"push_notification"})
                            ELSE statusFetches
                     /\ timeouts' = timeouts
                     /\ SchedulerUntouched]_vars
    /\ [][AlignmentFires(0) \/ IntervalFires(0)
             => \/ statusFetches' = statusFetches (+) SetToBag({"aligned"})
                \/ statusFetches' = statusFetches]_vars
    /\ []((BagIn("REFRESH_STATUS", inbox[ThisPage]) /\ CanIssue)
              => ENABLED MessageDelivered(ThisPage, "REFRESH_STATUS"))

\* a push-triggered fetch and an aligned tick of the repeating timer, both in flight
C15_Witness ==
    /\ BagIn("push_notification", statusFetches)
    /\ BagIn("aligned", statusFetches)
    /\ pollTimer # NULL
    /\ displayed > 0

----------------------------------------------------------------------------
(* Properties of page unload (SpecDestroy)                                 *)

\* C16: destroy cancels both scheduler timers: once it has run no alignment
\* timeout and no repeating timer is live and no fetch tagged aligned is
\* issued any more, whichever timer was live when it ran.
C16_DestroyCancelsTimers ==
    /\ [][Destroy => timers' = {}]_vars
    /\ [](destroyed => LiveTimeouts = {} /\ LiveIntervals = {})
    /\ [][destroyed
             => CopiesIn("aligned", statusFetches') <= CopiesIn("aligned", statusFetches)]_vars

\* destroy ran while the repeating timer was the live one
C16_Witness ==
    /\ destroyed
    /\ pollTimer # NULL
    /\ alignmentTimeout = NULL
    /\ lastTick = "interval"

----------------------------------------------------------------------------
(* Serviceability (SpecLive)                                               *)

\* an aligned tick: the alignment callback, or the repeating timer in its window
AlignedTick ==
    \E late \in LateLive :
        \/ AlignmentFires(late)
        \/ IntervalFires(late) /\ statusFetches' # statusFetches

\* C17: while the page is not unloaded and armed timers fire in the end, a
\* timer is always live and aligned ticks occur again and again, whatever
\* fetches and responses failed and however often the repeating timer had to
\* be re-aligned; a successful fetch restores connected and a count of 0.
C17_StaysServiceable ==
    /\ [](timers # {})
    /\ []<><<AlignedTick>>_vars
    /\ [][\A r \in OkResponses(SnapshotsOf({1})) :
              FetchSettles(r) => retryCount' = 0 /\ isConnected' = TRUE]_vars

\* failed fetches, a failed response and a re-alignment behind it, a timer live
C17_Witness ==
    /\ failsSinceOk >= 3
    /\ alertContainer = Alert("error", "respond_failed")
    /\ lastTick = "interval"
    /\ pollTimer # NULL /\ alignmentTimeout # NULL
    /\ timers # {}

----------------------------------------------------------------------------
(* Further properties of the notification state machine (Spec), of the     *)
(* status fetcher (SpecFail) and of page load (SpecSched)                  *)

\* C18: a successful snapshot with no notification (flag false or record
\* absent) or with an expired one clears currentNotificationId, also while
\* a notification is active or a response is in flight, and leaves the
\* shown ids as they are.
C18_EmptySnapshotClears ==
    [][\A r \in OkResponses(Snapshots) :
           (/\ FetchSettles(r)
            /\ \/ ~r.data.has_notification
               \/ r.data.notification.id = NULL
               \/ r.data.notification.is_expired)
               => /\ currentNotificationId' = NULL
                  /\ shownNotifications' = shownNotifications
                  /\ popupsScheduled' = popupsScheduled]_vars

\* cleared by a snapshot while the response to it is still in flight
C18_Witness ==
    /\ currentNotificationId = NULL
    /\ shownNotifications # {}
    /\ BagCardinality(respondPosts) = 1
    /\ alertContainer = <<>>
    /\ ~BagIn(RefreshTimeout, timeouts)
    /\ statusFetches = EmptyBag

\* C19: a failed status fetch changes the failure count, the connection
\* state and possibly the alert, and nothing else: no timer of the scheduler
\* is touched, no timeout is scheduled, no request is sent, the active id
\* and the shown ids stay.  Requests for the status are only sent by an
\* aligned tick, a message of the service worker, the refresh after a
\* successful response and the one pull of page load.
C19_FailedFetchFrame ==
    /\ [][\A r \in FailedResponses :
              FetchSettles(r)
                  => /\ retryCount' = retryCount + 1
                     /\ isConnected' = FALSE
                     /\ BagCardinality(statusFetches') = BagCardinality(statusFetches) - 1
                     /\ UNCHANGED <<currentNotificationId, shownNotifications,
                                    initialUpdateDone, timeouts, respondPosts>>
                     /\ SchedulerUntouched]_vars
    /\ [][BagCardinality(statusFetches') > BagCardinality(statusFetches)
             => \/ AlignmentFires(0)
                \/ ServiceWorkerMessage("REFRESH_STATUS")
                \/ RefreshFires
                \/ InitialUpdate /\ ~initialUpdateDone]_vars

\* a fetch failed while a notification was active: it is still active
C19_Witness ==
    /\ failsSinceOk >= 1
    /\ ~isConnected
    /\ currentNotificationId # NULL
    /\ currentNotificationId \in shownNotifications
    /\ timers # {}

\* C20: a page load starts disconnected, with no active notification and a
\* failure count of 0, the alignment timeout armed and the initial pull
\* pending; the pull is made once, tagged initial, needs no boundary to come
\* first and leaves the scheduler alone.
C20_FreshLoad ==
    /\ /\ ~isConnected
       /\ currentNotificationId = NULL
       /\ retryCount = 0
       /\ statusFetches = EmptyBag
       /\ timeouts = SetToBag({[task |-> "initial", delay |-> 100, id |-> NULL]})
       /\ Cardinality(timers) = 1
       /\ \A t \in timers :
              t.kind = "timeout" /\ t.id = alignmentTimeout /\ t.remaining >= 1
       /\ ENABLED InitialUpdate
    /\ [][InitialUpdate
             => /\ statusFetches' = statusFetches (+) SetToBag({"initial"})
                /\ ~initialUpdateDone /\ initialUpdateDone'
                /\ SchedulerUntouched]_vars
    /\ [](CopiesIn(InitialTimeout, timeouts) = IF initialUpdateDone THEN 0 ELSE 1)

\* the initial pull is in flight before the first boundary, the timeout armed
C20_Witness ==
    /\ initialUpdateDone
    /\ statusFetches = SetToBag({"initial"})
    /\ lastTick = ""
    /\ ~owed
    /\ \E t \in LiveTimeouts : t.id = alignmentTimeout

----------------------------------------------------------------------------
(* Interleavings of snapshots with a response in flight and with a popup   *)
(* that is pending (Spec)                                                  *)

\* C21: a respond POST for notification A that succeeds after a snapshot
\* made another notification B active leaves B active.
C21_SuccessClearsOnlyItsOwnId ==
    [][\A p \in BagToSet(respondPosts) :
           (/\ RespondSettles(p, "ok")
            /\ currentNotificationId # NULL
            /\ currentNotificationId # p.notification_id)
               => currentNotificationId' = currentNotificationId]_vars

\* C22: when the popup scheduled for notification n is surfaced, n is the
\* active notification.
C22_PopupForActiveId ==
    [][\A n \in Ids :
           (PopupFires /\ timeouts' = timeouts (-) SetToBag({PopupTimeout(n)}))
               => currentNotificationId = n]_vars

====
